---- MODULE Spec2Model ----
(***************************************************************************)
(* Model of the Keras network visualisation utilities:                     *)
(*   vis_utils2.py            model_to_dot, plot_model, add_edge,          *)
(*                            _check_pydot, LAYER_COLOR_DICT, DOT_KWARGS    *)
(*   network_visualization.py draw_graph, layer_color_dict                 *)
(*                                                                         *)
(* A Keras model is a sequence of layer descriptions (model._layers).  A   *)
(* layer object is identified by its path: the layer at position j of the  *)
(* model whose own path is p has the identity Append(p, j), which stands   *)
(* for str(id(layer)).  Layer names are unique inside one model (Keras     *)
(* rejects duplicate names), so a layer's name is modelled by its          *)
(* position j, and the key  name + '_ib-' + i  by the pair <<j, i>>.       *)
(*                                                                         *)
(* A pydot graph is a record of its attributes, its node list in insertion *)
(* order (get_nodes), its edge list and its subgraph list.                 *)
(***************************************************************************)
EXTENDS Integers, Sequences, FiniteSets, TLC

(* ------------------------------ bounds -------------------------------- *)
\* largest number of layers of the generated top-level model
MaxLayers == 3
\* largest number of inbound layers of a generated layer, over all of its
\* connection records (_inbound_nodes)
MaxInbound == 2

VARIABLES
    entry,              \* the entry point that is called
    layers,             \* model._layers of the model passed to the call
    args,               \* show_shapes, show_layer_names, rankdir, expand_nested, to_file
    env,                \* which optional dependencies are installed
    pc,                 \* position of the call
    i,                  \* index of the running for loop over layers
    dot,                \* the graph under construction (model_to_dot local)
    sub_n_first_node,   \* model_to_dot locals, keyed by layer name
    sub_n_last_node,
    sub_w_first_node,
    sub_w_last_node,
    err,                \* the exception the call ended with, "" if none
    files               \* files written to disk by the call

vars == <<entry, layers, args, env, pc, i, dot, sub_n_first_node,
          sub_n_last_node, sub_w_first_node, sub_w_last_node, err, files>>

(* ------------------------- module constants --------------------------- *)
\* vis_utils2.DOT_KWARGS: graph_type is the constructor argument, the
\* others become graph attributes
DOT_KWARGS == [graph_type |-> "graph", rotate |-> 90, ranksep |-> "0.4"]

\* vis_utils2.LAYER_COLOR_DICT, keyed by the class of the layer
LAYER_COLOR_DICT ==
    [c \in {"InputLayer", "Reshape", "Conv1D", "Conv2D", "MaxPooling1D",
            "MaxPooling2D", "ZeroPadding2D", "ZeroPadding3D", "Flatten",
            "AveragePooling2D", "GlobalAveragePooling2D", "Dropout", "Dense",
            "ReLU", "Concatenate", "Model", "RepeatVector", "Multiply", "Add",
            "BatchNormalization", "LSTM", "GRU", "Activation"} |->
        CASE c \in {"InputLayer", "ZeroPadding2D", "ZeroPadding3D",
                    "RepeatVector", "Multiply", "Add"} -> "grey"
          [] c \in {"Reshape", "Concatenate"} -> "#F5A286"
          [] c \in {"Conv1D", "Conv2D"} -> "#F7D7A8"
          [] c \in {"MaxPooling1D", "MaxPooling2D"} -> "#AADFA2"
          [] c = "Flatten" -> "#d44ddb"
          [] c \in {"AveragePooling2D", "GlobalAveragePooling2D", "LSTM"} -> "#A8CFE7"
          [] c \in {"Dropout", "Activation"} -> "#9896C8"
          [] c \in {"Dense", "ReLU"} -> "#C66AA7"
          [] c = "Model" -> "#292D30"
          [] c = "BatchNormalization" -> "#add8e6y"
          [] c = "GRU" -> "#ff6961"]

\* network_visualization.layer_color_dict
layer_color_dict ==
    [c \in {"InputLayer", "Reshape", "Conv1D", "Conv2D", "MaxPooling1D",
            "MaxPooling2D", "ZeroPadding3D", "Flatten", "AveragePooling2D",
            "GlobalAveragePooling2D", "Dropout", "Dense", "Concatenate",
            "Model", "RepeatVector", "Multiply", "Add", "BatchNormalization",
            "Activation"} |->
        CASE c \in {"InputLayer", "ZeroPadding3D", "Flatten", "RepeatVector",
                    "Multiply", "Add", "BatchNormalization", "Activation"} -> "grey"
          [] c \in {"Reshape", "Concatenate"} -> "#F5A286"
          [] c \in {"Conv1D", "Conv2D"} -> "#F7D7A8"
          [] c \in {"MaxPooling1D", "MaxPooling2D"} -> "#AADFA2"
          [] c \in {"AveragePooling2D", "GlobalAveragePooling2D"} -> "#A8CFE7"
          [] c = "Dropout" -> "#9896C8"
          [] c = "Dense" -> "#C66AA7"
          [] c = "Model" -> "#292D30"]

\* the names bound at module level in network_visualization.py (its imports
\* and definitions); draw_graph looks the name tqdm up among them
ModuleGlobals ==
    {"glob", "np", "compress", "pydot", "graphviz", "pickle", "keras", "plt",
     "Image", "display", "view_pydot", "layer_color_dict", "draw_graph",
     "draw_legend"}

(* ------------------------- layers and models -------------------------- *)
\* A layer description.
\*   kind      "layer"          an ordinary layer
\*             "model"          isinstance(layer, Model)
\*             "wrapper_layer"  a Wrapper around an ordinary layer
\*             "wrapper_model"  a Wrapper around a Model
\*   cls       layer.__class__.__name__
\*   inner_cls layer.layer.__class__.__name__ of a Wrapper, "" otherwise
\*   sub       the layers of the Model (kind "model") or of layer.layer
\*             (kind "wrapper_model"); <<>> otherwise
\*   inbound   layer._inbound_nodes: a sequence of connection records, each
\*             the sequence node.inbound_layers, given by position in the
\*             enclosing model
\*   active    the indices n of the records whose key is in
\*             model._network_nodes
\*   has_shape whether output_shape / input_shape can be resolved
Layer(kind, cls, inner_cls, sub, inbound, active, has_shape) ==
    [kind |-> kind, cls |-> cls, inner_cls |-> inner_cls, sub |-> sub,
     inbound |-> inbound, active |-> active, has_shape |-> has_shape]

\* an InputLayer has one connection record, without inbound layers
InputLayer == Layer("layer", "InputLayer", "", <<>>, << <<>> >>, {1}, TRUE)

\* vis_utils2.is_model
is_model(layer) == layer.kind = "model"

\* isinstance(layer, Wrapper)
is_wrapper(layer) == layer.kind \in {"wrapper_layer", "wrapper_model"}

\* vis_utils2.is_wrapped_model
is_wrapped_model(layer) == is_wrapper(layer) /\ layer.kind = "wrapper_model"

\* model._network_nodes as the set of keys <<layer name, record index>>
network_nodes(model) ==
    UNION {{<<j, n>> : n \in model[j].active} : j \in 1..Len(model)}

\* the sub-models the generated models are built from
Chain2 ==
    << InputLayer,
       Layer("layer", "Dense", "", <<>>, << <<1>> >>, {1}, TRUE) >>

NestedLast ==
    << InputLayer,
       Layer("layer", "Dense", "", <<>>, << <<1>> >>, {1}, TRUE),
       Layer("model", "Model", "", Chain2, << <<2>> >>, {1}, TRUE) >>

WrappedInside ==
    << InputLayer,
       Layer("wrapper_model", "TimeDistributed", "Model", Chain2, << <<1>> >>, {1}, TRUE),
       Layer("layer", "Custom", "", <<>>, << <<2>> >>, {1}, TRUE) >>

(* ------------------------------- pydot -------------------------------- *)
\* pydot.Dot(**DOT_KWARGS) followed by the set(...) calls of model_to_dot
NewDot(dpi) ==
    [type |-> DOT_KWARGS.graph_type, name |-> <<>>,
     attrs |-> [rotate |-> DOT_KWARGS.rotate, ranksep |-> DOT_KWARGS.ranksep,
                concentrate |-> TRUE, dpi |-> dpi],
     node_defaults |-> "record",
     nodes |-> <<>>, edges |-> <<>>, subgraphs |-> <<>>]

\* pydot.Cluster(style='dashed', graph_name=model.name) with its label
NewCluster(name) ==
    [type |-> "subgraph", name |-> name,
     attrs |-> [style |-> "dashed", label |-> name, labeljust |-> "l"],
     node_defaults |-> "",
     nodes |-> <<>>, edges |-> <<>>, subgraphs |-> <<>>]

\* dot.get_node(name): the nodes of this graph (not of its subgraphs)
get_node(g, name) == SelectSeq(g.nodes, LAMBDA nd : nd.name = name)

\* dot.get_edge(src, dst): the edges between the two points; in a graph
\* whose top graph type is 'graph' (undirected) the reversed pair matches too
get_edge(g, src, dst) ==
    SelectSeq(g.edges, LAMBDA e :
        \/ e = <<src, dst>>
        \/ (g.type = "graph" /\ e = <<dst, src>>))

\* a direct insertion that skips an edge the graph already has
dot_add_edge_skip(g, src, dst) ==
    IF \E n \in 1..Len(g.edges) : g.edges[n] = <<src, dst>>
    THEN g
    ELSE [g EXCEPT !.edges = Append(@, <<src, dst>>)]

\* dot.add_edge(pydot.Edge(src, dst)): direct insertion
dot_add_edge(g, src, dst) == [g EXCEPT !.edges = Append(@, <<src, dst>>)]

\* vis_utils2.add_edge: deduplicating insertion
add_edge(g, src, dst) ==
    IF get_edge(g, src, dst) # <<>> THEN g ELSE dot_add_edge(g, src, dst)

(* ------------------------------- labels ------------------------------- *)
\* A label is a sequence of tokens; the token ":" is the colon character.
Tok(k) == [k |-> k, v |-> <<>>]
\* layer.name of the layer object with identity id
NameTok(id) == [k |-> "name", v |-> id]
\* str(layer.input_shape), str(layer.output_shape)
ShapeTok(k, id) == [k |-> k, v |-> id]

\* label.split(":")[-1]
RECURSIVE SplitLast(_)
SplitLast(label) ==
    IF \A n \in 1..Len(label) : label[n] # Tok(":")
    THEN label
    ELSE SplitLast(Tail(label))

\* model_to_dot, lines 148-199: the label text before it is split
LayerLabel(layer, layer_id, a) ==
    LET plainWrap == is_wrapper(layer) /\
                     ~(a.expand_nested /\ layer.kind = "wrapper_model")
        layer_name == IF plainWrap
                      THEN <<NameTok(layer_id), Tok("("),
                             NameTok(Append(layer_id, 0)), Tok(")")>>
                      ELSE <<NameTok(layer_id)>>
        class_name == IF plainWrap
                      THEN <<Tok(layer.cls), Tok("("), Tok(layer.inner_cls), Tok(")")>>
                      ELSE <<Tok(layer.cls)>>
        label == IF a.show_layer_names
                 THEN layer_name \o <<Tok(":"), Tok(" ")>> \o class_name
                 ELSE class_name
        outputlabels == IF layer.has_shape
                        THEN ShapeTok("output_shape", layer_id)
                        ELSE Tok("multiple")
        inputlabels == IF layer.has_shape
                       THEN ShapeTok("input_shape", layer_id)
                       ELSE Tok("multiple")
    IN  IF a.show_shapes
        THEN label \o <<Tok("\n|{input"), Tok(":"), Tok("|output"), Tok(":"),
                        Tok("}|{{"), inputlabels, Tok("}|{"), outputlabels,
                        Tok("}}")>>
        ELSE label

\* LAYER_COLOR_DICT.get(layer_type, 'grey')
LayerColor(layer) ==
    IF layer.cls \in DOMAIN LAYER_COLOR_DICT
    THEN LAYER_COLOR_DICT[layer.cls]
    ELSE "grey"

\* pydot.Node(layer_id, label=label.split(":")[-1], color=..., **NODE_KWARGS)
LayerNode(layer, layer_id, a) ==
    [name |-> layer_id,
     label |-> SplitLast(LayerLabel(layer, layer_id, a)),
     color |-> LayerColor(layer)]

(* ---------------------------- model_to_dot --------------------------- *)
\* vis_utils2._check_pydot: the exception it raises, "" if none
_check_pydot(e) ==
    IF ~e.pydot THEN "ImportError"
    ELSE IF ~e.graphviz THEN "OSError"
    ELSE ""

\* the locals of one activation of model_to_dot
Locals(g) ==
    [dot |-> g, sub_n_first_node |-> <<>>, sub_n_last_node |-> <<>>,
     sub_w_first_node |-> <<>>, sub_w_last_node |-> <<>>, err |-> ""]

Raise(st, exc) == [st EXCEPT !.err = exc]

RECURSIVE model_to_dot(_, _, _, _)

\* sub_n_nodes[0], sub_w_nodes[0]
FirstNode(nodes) == nodes[1]

\* a last node taken at index 0 instead of -1
LastNode_index0(nodes) == nodes[1]

\* sub_n_nodes[-1], sub_w_nodes[-1]
LastNode(nodes) == nodes[Len(nodes)]

\* model_to_dot, lines 143-206: one pass of the node creation loop, for the
\* layer at position j of the model whose path is path
NodeStep(st, path, model, j, a) ==
    LET layer == model[j]
        layer_id == Append(path, j)
        expanded == a.expand_nested /\ layer.kind \in {"wrapper_model", "model"}
        sub == IF expanded
               THEN model_to_dot(layer_id, layer.sub, a, TRUE)
               ELSE [err |-> "", dot |-> NewCluster(layer_id)]
        sub_nodes == sub.dot.nodes
        node == LayerNode(layer, layer_id, a)
    IN  IF ~expanded
        THEN [st EXCEPT !.dot.nodes = Append(@, node)]
        ELSE IF sub.err # "" THEN Raise(st, sub.err)
        ELSE IF sub_nodes = <<>> THEN Raise(st, "IndexError")
        ELSE IF layer.kind = "wrapper_model"
        THEN [st EXCEPT
                !.sub_w_first_node = (j :> FirstNode(sub_nodes)) @@ @,
                !.sub_w_last_node = (j :> LastNode(sub_nodes)) @@ @,
                !.dot.subgraphs = Append(@, sub.dot),
                !.dot.nodes = Append(@, node)]
        ELSE [st EXCEPT
                !.sub_n_first_node = (j :> FirstNode(sub_nodes)) @@ @,
                !.sub_n_last_node = (j :> LastNode(sub_nodes)) @@ @,
                !.dot.subgraphs = Append(@, sub.dot)]

\* model_to_dot, lines 215-255: the body of the innermost edge loop, for the
\* inbound layer at position q of the layer at position j
WireEdge(st, path, model, j, q, a) ==
    LET layer == model[j]
        layer_id == Append(path, j)
        inbound_layer == model[q]
        inbound_layer_id == Append(path, q)
        g == st.dot
    IN  IF ~a.expand_nested
        THEN IF get_node(g, inbound_layer_id) = <<>> \/ get_node(g, layer_id) = <<>>
             THEN Raise(st, "AssertionError")
             ELSE [st EXCEPT !.dot = dot_add_edge(g, inbound_layer_id, layer_id)]
        ELSE IF ~is_model(inbound_layer) /\ ~is_wrapped_model(inbound_layer)
        THEN IF ~is_model(layer) /\ ~is_wrapped_model(layer)
             THEN IF get_node(g, inbound_layer_id) = <<>> \/ get_node(g, layer_id) = <<>>
                  THEN Raise(st, "AssertionError")
                  ELSE [st EXCEPT !.dot = dot_add_edge(g, inbound_layer_id, layer_id)]
             ELSE IF is_model(layer)
             THEN IF j \notin DOMAIN st.sub_n_first_node
                  THEN Raise(st, "KeyError")
                  ELSE [st EXCEPT !.dot =
                          add_edge(g, inbound_layer_id, st.sub_n_first_node[j].name)]
             ELSE \* is_wrapped_model(layer)
                  IF j \notin DOMAIN st.sub_w_first_node
                  THEN Raise([st EXCEPT !.dot = dot_add_edge(g, inbound_layer_id, layer_id)],
                             "KeyError")
                  ELSE [st EXCEPT !.dot =
                          dot_add_edge(dot_add_edge(g, inbound_layer_id, layer_id),
                                       layer_id, st.sub_w_first_node[j].name)]
        ELSE IF is_model(inbound_layer)
        THEN IF q \notin DOMAIN st.sub_n_last_node
             THEN Raise(st, "KeyError")
             ELSE LET name == st.sub_n_last_node[q].name
                  IN  IF is_model(layer)
                      THEN IF j \notin DOMAIN st.sub_n_first_node
                           THEN Raise(st, "KeyError")
                           ELSE [st EXCEPT !.dot =
                                   add_edge(g, name, st.sub_n_first_node[j].name)]
                      ELSE [st EXCEPT !.dot = add_edge(g, name, layer_id)]
        ELSE \* is_wrapped_model(inbound_layer)
             IF q \notin DOMAIN st.sub_w_last_node
             THEN Raise(st, "KeyError")
             ELSE [st EXCEPT !.dot =
                     add_edge(g, st.sub_w_last_node[q].name, layer_id)]

\* model_to_dot, lines 211-214: the inbound layers of the layer at position
\* j, in loop order, over the connection records whose key is in
\* model._network_nodes
RECURSIVE InboundOf(_, _, _)
InboundOf(model, j, n) ==
    IF n > Len(model[j].inbound) THEN <<>>
    ELSE (IF <<j, n>> \in network_nodes(model) THEN model[j].inbound[n] ELSE <<>>)
         \o InboundOf(model, j, n + 1)

RECURSIVE WireAll(_, _, _, _, _, _)
WireAll(st, path, model, j, qs, a) ==
    IF qs = <<>> \/ st.err # "" THEN st
    ELSE WireAll(WireEdge(st, path, model, j, Head(qs), a),
                 path, model, j, Tail(qs), a)

\* model_to_dot, lines 209-255: one pass of the outer edge loop
EdgeStep(st, path, model, j, a) ==
    WireAll(st, path, model, j, InboundOf(model, j, 1), a)

RECURSIVE NodeLoop(_, _, _, _, _)
NodeLoop(st, path, model, j, a) ==
    IF j > Len(model) \/ st.err # "" THEN st
    ELSE NodeLoop(NodeStep(st, path, model, j, a), path, model, j + 1, a)

RECURSIVE EdgeLoop(_, _, _, _, _)
EdgeLoop(st, path, model, j, a) ==
    IF j > Len(model) \/ st.err # "" THEN st
    ELSE EdgeLoop(EdgeStep(st, path, model, j, a), path, model, j + 1, a)

\* vis_utils2.model_to_dot as a function: the graph (or cluster) of the
\* model whose path is path, or the exception raised
model_to_dot(path, model, a, subgraph) ==
    IF _check_pydot(env) # ""
    THEN [err |-> _check_pydot(env), dot |-> NewCluster(path)]
    ELSE LET g0 == IF subgraph THEN NewCluster(path) ELSE NewDot(a.dpi)
             st == EdgeLoop(NodeLoop(Locals(g0), path, model, 1, a),
                            path, model, 1, a)
         IN  [err |-> st.err, dot |-> st.dot]

(* ------------------------------ inputs -------------------------------- *)
\* the sequences of exactly len positions below p
RECURSIVE SeqsBelow(_, _)
SeqsBelow(p, len) ==
    IF len = 0 THEN {<<>>}
    ELSE {Append(r, q) : r \in SeqsBelow(p, len - 1), q \in 1..(p - 1)}

\* node.inbound_layers of a connection record of a generated layer at
\* position p: up to MaxInbound layers of the same model declared before it,
\* listed in declaration order
RecordChoices(p) ==
    UNION {{r \in SeqsBelow(p, len) : \A n \in 1..(len - 1) : r[n] <= r[n + 1]} :
           len \in 1..MaxInbound}

\* layer._inbound_nodes of a generated layer at position p, with the indices
\* of the records whose key is in model._network_nodes:
\*   one record, or
\*   two records of a layer that is used at two places of the model, or
\*   two records of a layer that is also used outside the model (the inbound
\*   layers of the record outside model._network_nodes are never read)
InboundChoices(p) ==
    {[inbound |-> <<r>>, active |-> {1}] : r \in RecordChoices(p)}
    \cup {[inbound |-> << <<q[1]>>, <<q[2]>> >>, active |-> {1, 2}] :
             q \in {x \in SeqsBelow(p, 2) : x[1] <= x[2]}}
    \cup {[inbound |-> << <<q>>, <<p - 1>> >>, active |-> {1}] : q \in 1..(p - 1)}

\* the layers a generated model can have at position p > 1
LayerChoices(p) ==
    {Layer(k.kind, k.cls, k.inner_cls, k.sub, ib.inbound, ib.active, TRUE) :
        k \in {[kind |-> "layer", cls |-> "Dense", inner_cls |-> "", sub |-> <<>>],
               [kind |-> "model", cls |-> "Model", inner_cls |-> "", sub |-> NestedLast],
               [kind |-> "wrapper_model", cls |-> "TimeDistributed",
                inner_cls |-> "Model", sub |-> Chain2]},
        ib \in InboundChoices(p)}

\* the generated models: an input layer followed by n - 1 generated layers
RECURSIVE IsGenerated(_, _)
IsGenerated(m, n) ==
    IF Len(m) = n THEN layers = m
    ELSE \E l \in LayerChoices(Len(m) + 1) : IsGenerated(Append(m, l), n)

\* models with layers of unregistered classes, wrappers around plain layers
\* and layers without a resolvable shape
OptionModels ==
    { << InputLayer,
         Layer("layer", "Dense", "", <<>>, << <<1>> >>, {1}, TRUE),
         Layer("layer", "Custom", "", <<>>, << <<2>> >>, {1}, FALSE) >>,
      << InputLayer,
         Layer("wrapper_layer", "Bidirectional", "LSTM", <<>>, << <<1>> >>, {1}, TRUE),
         Layer("layer", "Dense", "", <<>>, << <<2>> >>, {1}, TRUE) >>,
      << InputLayer,
         Layer("model", "Model", "", Chain2, << <<1>> >>, {1}, TRUE),
         Layer("layer", "Dense", "", <<>>, << <<2>> >>, {1}, TRUE) >>,
      << InputLayer,
         Layer("model", "Model", "", WrappedInside, << <<1>> >>, {1}, TRUE) >> }

Args(show_shapes, show_layer_names, rankdir, expand_nested, to_file) ==
    [show_shapes |-> show_shapes, show_layer_names |-> show_layer_names,
     rankdir |-> rankdir, expand_nested |-> expand_nested, dpi |-> 96,
     to_file |-> to_file]

\* no graph has been created yet
NoDot ==
    [type |-> "none", name |-> <<>>, attrs |-> <<>>, node_defaults |-> "",
     nodes |-> <<>>, edges |-> <<>>, subgraphs |-> <<>>]

(* ---------------------------- state machine --------------------------- *)
Init ==
    /\ pc = "call"
    /\ i = 0
    /\ dot = NoDot
    /\ sub_n_first_node = <<>>
    /\ sub_n_last_node = <<>>
    /\ sub_w_first_node = <<>>
    /\ sub_w_last_node = <<>>
    /\ err = ""
    /\ files = {}
    /\ \/ \* generated models, default options, dependencies installed
          /\ entry = "model_to_dot"
          /\ \E n \in 2..MaxLayers : IsGenerated(<<InputLayer>>, n)
          /\ \E x \in BOOLEAN :
                args = Args(FALSE, TRUE, "TB", x, [base |-> "model", ext |-> "png"])
          /\ env = [pydot |-> TRUE, graphviz |-> TRUE, ipython |-> TRUE]
       \/ \* a few models, every option and every installation
          /\ entry \in {"model_to_dot", "plot_model", "draw_graph"}
          /\ layers \in OptionModels
          /\ \E ss \in BOOLEAN, sn \in BOOLEAN, rd \in {"TB", "LR"},
                x \in BOOLEAN, ext \in {"png", "pdf", ""} :
                args = Args(ss, sn, rd, x, [base |-> "model", ext |-> ext])
          /\ \E pd \in BOOLEAN, gv \in BOOLEAN, ip \in BOOLEAN :
                /\ env = [pydot |-> pd, graphviz |-> gv, ipython |-> ip]
                \* network_visualization.py imports pydot and IPython at
                \* module level: draw_graph exists only where they do
                /\ entry = "draw_graph" => (pd /\ ip)

St ==
    [dot |-> dot, sub_n_first_node |-> sub_n_first_node,
     sub_n_last_node |-> sub_n_last_node, sub_w_first_node |-> sub_w_first_node,
     sub_w_last_node |-> sub_w_last_node, err |-> err]

SetLocals(st) ==
    /\ dot' = st.dot
    /\ sub_n_first_node' = st.sub_n_first_node
    /\ sub_n_last_node' = st.sub_n_last_node
    /\ sub_w_first_node' = st.sub_w_first_node
    /\ sub_w_last_node' = st.sub_w_last_node
    /\ err' = st.err

\* model_to_dot, lines 120-135: the dependency check and the empty graph
CheckPydot ==
    /\ pc = "call"
    /\ entry \in {"model_to_dot", "plot_model"}
    /\ IF _check_pydot(env) # ""
       THEN /\ err' = _check_pydot(env)
            /\ pc' = "error"
            /\ UNCHANGED <<dot, i>>
       ELSE /\ dot' = NewDot(args.dpi)
            /\ pc' = "nodes"
            /\ i' = 1
            /\ err' = ""
    /\ UNCHANGED <<entry, layers, args, env, sub_n_first_node, sub_n_last_node,
                   sub_w_first_node, sub_w_last_node, files>>

\* model_to_dot, lines 143-206: one pass of the node creation loop
CreateNode ==
    /\ pc = "nodes"
    /\ i <= Len(layers)
    /\ LET st == NodeStep(St, <<>>, layers, i, args)
       IN  /\ SetLocals(st)
           /\ IF st.err # "" THEN pc' = "error" /\ i' = i
              ELSE IF i = Len(layers) THEN pc' = "edges" /\ i' = 1
              ELSE pc' = "nodes" /\ i' = i + 1
    /\ UNCHANGED <<entry, layers, args, env, files>>

\* model_to_dot, lines 209-256: one pass of the outer edge loop; the graph
\* is returned after the last one
ConnectLayer ==
    /\ pc = "edges"
    /\ i <= Len(layers)
    /\ LET st == EdgeStep(St, <<>>, layers, i, args)
       IN  /\ SetLocals(st)
           /\ IF st.err # "" THEN pc' = "error" /\ i' = i
              ELSE IF i = Len(layers) THEN pc' = "built" /\ i' = i
              ELSE pc' = "edges" /\ i' = i + 1
    /\ UNCHANGED <<entry, layers, args, env, files>>

\* the caller of model_to_dot receives the graph
Return ==
    /\ pc = "built"
    /\ entry = "model_to_dot"
    /\ pc' = "done"
    /\ UNCHANGED <<entry, layers, args, env, i, dot, sub_n_first_node,
                   sub_n_last_node, sub_w_first_node, sub_w_last_node, err, files>>

\* plot_model, lines 286-291: the format is the extension of to_file,
\* 'png' when it has none; dot.write renders the graph into the file
Write ==
    /\ pc = "built"
    /\ entry = "plot_model"
    /\ LET extension == IF args.to_file.ext = "" THEN "png" ELSE args.to_file.ext
       IN  files' = files \cup {[path |-> args.to_file, format |-> extension]}
    /\ pc' = "written"
    /\ UNCHANGED <<entry, layers, args, env, i, dot, sub_n_first_node,
                   sub_n_last_node, sub_w_first_node, sub_w_last_node, err>>

\* IPython.display.Image(filename=...): the format is the extension of the
\* file name (the whole name when it has none); an image is embedded, and
\* only png, jpeg and gif can be
ImageError(to_file) ==
    LET format == IF to_file.ext = "" THEN to_file.base ELSE to_file.ext
    IN  IF format \in {"png", "jpg", "jpeg", "gif"} THEN "" ELSE "ValueError"

\* plot_model, lines 293-297: only ImportError is caught
Display ==
    /\ pc = "written"
    /\ IF ~env.ipython
       THEN pc' = "done" /\ err' = ""
       ELSE IF ImageError(args.to_file) = ""
       THEN pc' = "done" /\ err' = ""
       ELSE pc' = "error" /\ err' = ImageError(args.to_file)
    /\ UNCHANGED <<entry, layers, args, env, i, dot, sub_n_first_node,
                   sub_n_last_node, sub_w_first_node, sub_w_last_node, files>>

\* network_visualization.draw_graph, lines 57-109: the exception it ends
\* with, "" if none.  The loop header evaluates tqdm.tqdm(...), and every
\* pass looks the layer's type up with layer_color_dict[layer_type].
draw_graph_error(model) ==
    IF "tqdm" \notin ModuleGlobals THEN "NameError"
    ELSE IF \E j \in 1..Len(model) : model[j].cls \notin DOMAIN layer_color_dict
    THEN "KeyError"
    ELSE ""

DrawGraph ==
    /\ pc = "call"
    /\ entry = "draw_graph"
    /\ err' = draw_graph_error(layers)
    /\ pc' = IF draw_graph_error(layers) # "" THEN "error" ELSE "done"
    /\ UNCHANGED <<entry, layers, args, env, i, dot, sub_n_first_node,
                   sub_n_last_node, sub_w_first_node, sub_w_last_node, files>>

Next ==
    \/ CheckPydot
    \/ CreateNode
    \/ ConnectLayer
    \/ Return
    \/ Write
    \/ Display
    \/ DrawGraph

Spec == Init /\ [][Next]_vars

(* ------------------------------ properties ---------------------------- *)
\* model_to_dot has returned its graph to the caller
GraphReturned ==
    /\ entry \in {"model_to_dot", "plot_model"}
    /\ pc \in {"built", "written", "done"}

\* the number of times x occurs in seq
Count(seq, x) == Cardinality({n \in 1..Len(seq) : seq[n] = x})

\* the number of times the layer at position q is listed as an inbound layer
\* of the layer at position j, over the connection records of j whose key is
\* in model._network_nodes
Occurrences(q, j) ==
    Cardinality({nk \in (1..Len(layers[j].inbound)) \X (1..MaxInbound) :
        /\ <<j, nk[1]>> \in network_nodes(layers)
        /\ nk[2] <= Len(layers[j].inbound[nk[1]])
        /\ layers[j].inbound[nk[1]][nk[2]] = q})

Positions == 1..Len(layers)

\* no layer is used at more than one place of the model
NoSharedLayers == \A j \in Positions : Cardinality(layers[j].active) <= 1

\* the names of the nodes of a graph and of its nested clusters
RECURSIVE AllNodes(_)
AllNodes(g) ==
    {g.nodes[n].name : n \in 1..Len(g.nodes)}
    \cup UNION {AllNodes(g.subgraphs[k]) : k \in 1..Len(g.subgraphs)}

\* the edges of a graph and of its nested clusters
RECURSIVE AllEdges(_)
AllEdges(g) ==
    {g.edges[n] : n \in 1..Len(g.edges)}
    \cup UNION {AllEdges(g.subgraphs[k]) : k \in 1..Len(g.subgraphs)}

TopNodes == {dot.nodes[n].name : n \in 1..Len(dot.nodes)}
TopEdges == {dot.edges[n] : n \in 1..Len(dot.edges)}

OneNodePerLayer ==
    /\ Len(dot.nodes) = Len(layers)
    /\ \A j \in Positions : dot.nodes[j].name = <<j>>
    /\ dot.subgraphs = <<>>

EdgesJoinLayers ==
    \A e \in TopEdges : \E q \in Positions, j \in Positions : e = << <<q>>, <<j>> >>

\* C1 as stated: without expand_nested, the graph of a model without shared
\* layers has exactly one node per layer and exactly one edge inbound layer ->
\* layer for every (inbound layer, layer) pair of the connection records whose
\* key is in the model's active nodes.
C1_OneEdgePerPair ==
    (GraphReturned /\ ~args.expand_nested /\ NoSharedLayers) =>
        /\ OneNodePerLayer
        /\ EdgesJoinLayers
        /\ \A q \in Positions, j \in Positions :
              Count(dot.edges, << <<q>>, <<j>> >>) =
                  IF Occurrences(q, j) > 0 THEN 1 ELSE 0

\* C1 amended: without expand_nested, the graph of a model without shared
\* layers has exactly one node per layer and, for every (inbound layer, layer)
\* pair, as many edges inbound layer -> layer as the active connection records
\* of the layer list the inbound layer: a record that lists the same inbound
\* layer twice gives two parallel edges.
C1_OneEdgePerInboundEntry ==
    (GraphReturned /\ ~args.expand_nested /\ NoSharedLayers) =>
        /\ OneNodePerLayer
        /\ EdgesJoinLayers
        /\ \A q \in Positions, j \in Positions :
              Count(dot.edges, << <<q>>, <<j>> >>) = Occurrences(q, j)

\* a graph returned for a model in which one record lists a layer twice and
\* another layer has a record outside the active nodes or a single inbound
C1_Witness ==
    /\ GraphReturned /\ ~args.expand_nested /\ NoSharedLayers
    /\ \E q \in Positions, j \in Positions : Occurrences(q, j) = 2
    /\ Len(dot.edges) >= 2

\* the boundary node an edge leaves the layer at position q from
OutOf(q) ==
    IF is_model(layers[q]) THEN sub_n_last_node[q].name
    ELSE IF is_wrapped_model(layers[q]) THEN sub_w_last_node[q].name
    ELSE <<q>>

\* C2: with expand_nested, a plain sub-model has no node of its own, its
\* cluster is a subgraph of the parent, every edge from an inbound layer
\* arrives at the cluster's recorded first node and every edge to a
\* downstream layer leaves from the cluster's recorded last node.
C2_PlainSubmodelRewired ==
    (GraphReturned /\ args.expand_nested) =>
        \A j \in Positions : is_model(layers[j]) =>
            /\ <<j>> \notin AllNodes(dot)
            /\ \E k \in 1..Len(dot.subgraphs) : dot.subgraphs[k].name = <<j>>
            /\ \A e \in TopEdges : e[1] # <<j>> /\ e[2] # <<j>>
            /\ \A q \in Positions : Occurrences(q, j) > 0 =>
                  <<OutOf(q), sub_n_first_node[j].name>> \in TopEdges
            /\ \A k \in Positions : Occurrences(j, k) > 0 =>
                  \E e \in TopEdges : e[1] = sub_n_last_node[j].name

\* the nodes at which an expanded sub-model is attached
BoundaryNodes ==
    {<<j>> : j \in {x \in Positions : is_wrapped_model(layers[x])}}
    \cup {sub_n_first_node[j].name : j \in DOMAIN sub_n_first_node}
    \cup {sub_n_last_node[j].name : j \in DOMAIN sub_n_last_node}
    \cup {sub_w_first_node[j].name : j \in DOMAIN sub_w_first_node}
    \cup {sub_w_last_node[j].name : j \in DOMAIN sub_w_last_node}

\* C3: with expand_nested, no two edges with an endpoint at an expanded
\* boundary have the same ordered (source, destination) pair.
C3_NoDuplicateBoundaryEdge ==
    (GraphReturned /\ args.expand_nested) =>
        \A e \in TopEdges :
            (e[1] \in BoundaryNodes \/ e[2] \in BoundaryNodes) =>
                Count(dot.edges, e) = 1

\* the positions of the layers of a sub-model that get a node in its cluster
Emitting(sub) == {k \in 1..Len(sub) : ~is_model(sub[k])}

Min(S) == CHOOSE x \in S : \A y \in S : x <= y
Max(S) == CHOOSE x \in S : \A y \in S : x >= y

\* C4 as stated: the first (last) node recorded for an expanded sub-model is
\* the node of the first (last) layer of the sub-model in declaration order.
C4_FirstLastDeclared ==
    /\ \A j \in DOMAIN sub_n_first_node :
          sub_n_first_node[j].name = <<j, 1>>
    /\ \A j \in DOMAIN sub_n_last_node :
          sub_n_last_node[j].name = <<j, Len(layers[j].sub)>>
    /\ \A j \in DOMAIN sub_w_first_node :
          sub_w_first_node[j].name = <<j, 1>>
    /\ \A j \in DOMAIN sub_w_last_node :
          sub_w_last_node[j].name = <<j, Len(layers[j].sub)>>

\* C4 amended: the first (last) node recorded for an expanded sub-model is the
\* node of the first (last) layer in declaration order that has a node in the
\* cluster, that is, that is not itself an expanded plain sub-model.
C4_FirstLastEmitted ==
    /\ \A j \in DOMAIN sub_n_first_node :
          sub_n_first_node[j].name = <<j, Min(Emitting(layers[j].sub))>>
    /\ \A j \in DOMAIN sub_n_last_node :
          sub_n_last_node[j].name = <<j, Max(Emitting(layers[j].sub))>>
    /\ \A j \in DOMAIN sub_w_first_node :
          sub_w_first_node[j].name = <<j, Min(Emitting(layers[j].sub))>>
    /\ \A j \in DOMAIN sub_w_last_node :
          sub_w_last_node[j].name = <<j, Max(Emitting(layers[j].sub))>>

\* a graph returned with a recorded plain sub-model whose last declared layer
\* is itself a sub-model, and a recorded wrapped sub-model
C4_Witness ==
    /\ GraphReturned
    /\ \E j \in DOMAIN sub_n_last_node :
          is_model(layers[j].sub[Len(layers[j].sub)])
    /\ DOMAIN sub_w_last_node # {}

\* C5: with expand_nested, a wrapper around a sub-model keeps its node, has
\* an edge from that node to the inner cluster's first node, and the edges to
\* its downstream layers leave from the inner cluster's last node, whatever
\* the kind of its inbound layer.
C5_WrappedPassThrough ==
    (GraphReturned /\ args.expand_nested) =>
        \A j \in Positions : is_wrapped_model(layers[j]) =>
            /\ <<j>> \in TopNodes
            /\ << <<j>>, sub_w_first_node[j].name >> \in TopEdges
            /\ \A e \in TopEdges :
                  e[1] = <<j>> => e[2] = sub_w_first_node[j].name
            /\ \A k \in Positions : Occurrences(j, k) > 0 =>
                  \E e \in TopEdges : e[1] = sub_w_last_node[j].name

\* C6: a missing dependency ends the call with its error before anything is
\* constructed or written, and no call that ends in an error leaves a file.
C6_FailFast ==
    /\ (entry \in {"model_to_dot", "plot_model"} /\ _check_pydot(env) # ""
        /\ pc # "call") =>
            /\ pc = "error" /\ err = _check_pydot(env)
            /\ dot = NoDot /\ files = {}
    /\ pc = "error" => files = {}

\* the classes of the layers of the model
Classes == {layers[j].cls : j \in Positions}

\* C7: a layer of a class that is not in the color table gets the default
\* color and the construction does not fail, in model_to_dot, plot_model and
\* draw_graph.
C7_DefaultColor ==
    /\ GraphReturned =>
          \A n \in 1..Len(dot.nodes) :
              layers[dot.nodes[n].name[1]].cls \notin DOMAIN LAYER_COLOR_DICT =>
                  dot.nodes[n].color = "grey"
    /\ (entry = "draw_graph" /\ pc # "call"
        /\ \E c \in Classes : c \notin DOMAIN layer_color_dict) =>
            err = ""

Has(label, tok) == \E n \in 1..Len(label) : label[n] = tok

\* C8: the label of a node has the layer's name and type when
\* show_layer_names is set and the type only when it is not; show_shapes adds
\* the shape annotation without removing the name or the type.
C8_Labels ==
    GraphReturned =>
        \A n \in 1..Len(dot.nodes) :
            LET nd == dot.nodes[n]
                layer == layers[nd.name[1]]
            IN  /\ Has(nd.label, Tok(layer.cls))
                /\ args.show_layer_names <=> Has(nd.label, NameTok(nd.name))
                /\ args.show_shapes =>
                      \/ Has(nd.label, ShapeTok("output_shape", nd.name))
                      \/ Has(nd.label, Tok("multiple"))

\* C9: the returned top-level graph carries the rankdir argument as its
\* rank-direction attribute.
C9_RankdirPassedThrough ==
    GraphReturned =>
        /\ "rankdir" \in DOMAIN dot.attrs
        /\ dot.attrs["rankdir"] = args.rankdir

\* C10: an edge endpoint that does not exist aborts the construction, so
\* every edge of a returned graph has both endpoints among the nodes of the
\* graph or of its nested clusters.
C10_EdgesHaveEndpoints ==
    GraphReturned =>
        \A e \in AllEdges(dot) : e[1] \in AllNodes(dot) /\ e[2] \in AllNodes(dot)

====
